---- MODULE Spec2Model ----
(***************************************************************************)
(* buildkit (src/lib.rs): a build script loads the package's               *)
(* `package.metadata.buildkit` table (BuildKit::from_metadata), resolves   *)
(* one build mode (BuildKit::mode) and dispatches to exactly one handler   *)
(* (BuildKit::build): the caller's vendored-build closure, the pkg-config  *)
(* prober or the vcpkg prober.                                             *)
(*                                                                         *)
(* Rust `String`s are sequences of one-character strings, so that          *)
(* ends_with, to_uppercase and replace are computed and not assumed.       *)
(* JSON object keys and enum tags of the model itself are TLA+ strings.    *)
(***************************************************************************)
EXTENDS Integers, Sequences, FiniteSets, TLC

VARIABLES
    env,        \* the process environment: key -> OsString or unset
    cargo,      \* what `cargo metadata --no-deps` answers for the manifest
    pc,         \* position of the build script
    metadata,   \* Option<BuildKitMetadata>: BuildKit.metadata once constructed
    modeRes,    \* Option<Result<BuildKitMode, Error>>: what self.mode() returned
    ctx,        \* Option<VendoredBuildContext> built for the closure
    probeCfg,   \* Option<prober Config> prepared by try_pkg_config / try_vcpkg
    calls,      \* handlers invoked so far, in order, with their arguments
    out,        \* lines printed to cargo (build-system signals), in order
    envReads,   \* environment keys read so far, in order
    result      \* Option<Result<(), Error>>: what the build script ended with

vars == <<env, cargo, pc, metadata, modeRes, ctx, probeCfg, calls, out, envReads, result>>

----------------------------------------------------------------------------
(* Bounds of the model.                                                    *)

\* longest library name drawn letter by letter (InitNames)
MaxNameLen == 3
\* longest `libs` array of a vcpkg requirement
MaxLibs == 1
\* most include paths one pkg-config probe reports
MaxIncludes == 2

----------------------------------------------------------------------------
(* Option, Result, ().                                                     *)

None == [some |-> FALSE]
Some(x) == [some |-> TRUE, v |-> x]
Ok(x) == [ok |-> TRUE, val |-> x]
Err(e) == [ok |-> FALSE, err |-> e]
Unit == "()"

(* ErrorKind, as far as the build script can produce it.                   *)
EnvVarError(key, err) == [kind |-> "EnvVarError", key |-> key, err |-> err]
CargoMetadataError == [kind |-> "CargoMetadataError"]
InvalidCargoMetadata == [kind |-> "InvalidCargoMetadata"]
Json == [kind |-> "Json"]
NoVendoredSourceSpecified == [kind |-> "NoVendoredSourceSpecified"]
NoPkgConfigRequirementSpecified == [kind |-> "NoPkgConfigRequirementSpecified"]
NoVcpkgRequirementSpecified == [kind |-> "NoVcpkgRequirementSpecified"]
VcpkgError == [kind |-> "VcpkgError"]
PkgConfigError == [kind |-> "PkgConfigError"]
Custom == [kind |-> "Custom"]

----------------------------------------------------------------------------
(* Strings.                                                                *)

\* a byte sequence that is no valid Unicode, as an OsString may hold
InvalidByte == "\\xFF"

Lowercase == <<"a","b","c","d","e","f","g","h","i","j","k","l","m","n","o","p","q","r","s","t","u","v","w","x","y","z">>
Uppercase == <<"A","B","C","D","E","F","G","H","I","J","K","L","M","N","O","P","Q","R","S","T","U","V","W","X","Y","Z">>

\* char::to_uppercase on the characters the model uses
char_to_uppercase(c) ==
    IF \E i \in DOMAIN Lowercase : Lowercase[i] = c
    THEN Uppercase[CHOOSE i \in DOMAIN Lowercase : Lowercase[i] = c]
    ELSE c

\* str::to_uppercase
to_uppercase(s) == [i \in DOMAIN s |-> char_to_uppercase(s[i])]

\* str::replace(from, to) for one-character patterns
replace(s, from, to) == [i \in DOMAIN s |-> IF s[i] = from THEN to ELSE s[i]]

\* str::ends_with
ends_with(s, suffix) ==
    /\ Len(s) >= Len(suffix)
    /\ SubSeq(s, Len(s) - Len(suffix) + 1, Len(s)) = suffix

----------------------------------------------------------------------------
(* The environment.                                                        *)

Unset == [set |-> FALSE]
OsString(s) == [set |-> TRUE, bytes |-> s]

\* faulty variant of the next definition: an unset variable reads as the empty string
env_var_or_default(e, key) ==
    IF ~e[key].set THEN Ok(<<>>)
    ELSE IF \E i \in DOMAIN e[key].bytes : e[key].bytes[i] = InvalidByte
         THEN Err(EnvVarError(key, "NotUnicode"))
         ELSE Ok(e[key].bytes)

\* std::env::var(key): NotPresent when unset, NotUnicode when the value is no
\* valid Unicode, the String otherwise; the error keeps the key
env_var(e, key) ==
    IF ~e[key].set THEN Err(EnvVarError(key, "NotPresent"))
    ELSE IF \E i \in DOMAIN e[key].bytes : e[key].bytes[i] = InvalidByte
         THEN Err(EnvVarError(key, "NotUnicode"))
         ELSE Ok(e[key].bytes)

----------------------------------------------------------------------------
(* BuildKit::mode.  `reads` lists the environment keys it read.            *)

\* str::contains, for the relaxed check the TODO of line 97 considers
contains(s, pat) ==
    \E i \in 1..(Len(s) + 1) :
        /\ i + Len(pat) - 1 <= Len(s)
        /\ SubSeq(s, i, i + Len(pat) - 1) = pat

\* faulty variant of the next definition: any -windows- target is sent to vcpkg
mode_relaxed(md, e) ==
    IF md.default_mode = "VendoredBuild"
    THEN [res |-> Ok("VendoredBuild"), reads |-> <<>>]
    ELSE LET target == env_var(e, "TARGET") IN
         IF ~target.ok THEN [res |-> target, reads |-> <<"TARGET">>]
         ELSE IF contains(target.val, <<"-","w","i","n","d","o","w","s","-">>)
              THEN [res |-> Ok("Vcpkg"), reads |-> <<"TARGET">>]
              ELSE [res |-> Ok("PkgConfig"), reads |-> <<"TARGET">>]

\* faulty variant of the next definition: TARGET is read before default_mode is looked at
mode_target_first(md, e) ==
    LET target == env_var(e, "TARGET") IN
    IF ~target.ok THEN [res |-> target, reads |-> <<"TARGET">>]
    ELSE IF md.default_mode = "VendoredBuild"
         THEN [res |-> Ok("VendoredBuild"), reads |-> <<"TARGET">>]
         ELSE IF ends_with(target.val, <<"-","w","i","n","d","o","w","s","-","m","s","v","c">>)
              THEN [res |-> Ok("Vcpkg"), reads |-> <<"TARGET">>]
              ELSE [res |-> Ok("PkgConfig"), reads |-> <<"TARGET">>]

mode(md, e) ==
    IF md.default_mode = "VendoredBuild"
    THEN [res |-> Ok("VendoredBuild"), reads |-> <<>>]
    ELSE LET target == env_var(e, "TARGET") IN
         IF ~target.ok THEN [res |-> target, reads |-> <<"TARGET">>]
         ELSE IF ends_with(target.val, <<"-","w","i","n","d","o","w","s","-","m","s","v","c">>)
              THEN [res |-> Ok("Vcpkg"), reads |-> <<"TARGET">>]
              ELSE [res |-> Ok("PkgConfig"), reads |-> <<"TARGET">>]

----------------------------------------------------------------------------
(* serde_json::Value, as far as manifests of the model use it.             *)

JNull == [t |-> "null"]
JNumber == [t |-> "number"]
JString(s) == [t |-> "string", s |-> s]
JArray(a) == [t |-> "array", a |-> a]
JObject(o) == [t |-> "object", o |-> o]
EmptyMap == [k \in {} |-> JNull]

\* String::deserialize (and Utf8PathBuf::deserialize): a JSON string
deserialize_String(v) == IF v.t = "string" THEN Ok(v.s) ELSE Err(Json)

\* a field of type Option<T>: None when the key is missing or null
absent(o, k) == k \notin DOMAIN o \/ o[k].t = "null"

\* #[serde(untagged)] enum PkgConfigVersionReq: the variants are tried in
\* declaration order on the buffered value and the first that decodes wins;
\* a struct variant needs each of its fields as a string and, with no
\* deny_unknown_fields, ignores every other key.
has_string(v, k) == v.t = "object" /\ k \in DOMAIN v.o /\ v.o[k].t = "string"

deserialize_PkgConfigVersionReq(v) ==
    IF has_string(v, "min") /\ has_string(v, "max")
    THEN Ok([variant |-> "Range", min |-> v.o["min"].s, max |-> v.o["max"].s])
    ELSE IF has_string(v, "min")
    THEN Ok([variant |-> "Min", min |-> v.o["min"].s])
    ELSE IF has_string(v, "max")
    THEN Ok([variant |-> "Max", max |-> v.o["max"].s])
    ELSE IF has_string(v, "exact")
    THEN Ok([variant |-> "Exact", exact |-> v.o["exact"].s])
    ELSE Err(Json)

\* struct PkgConfigRequirement { name, version_req }, kebab-case keys
deserialize_PkgConfigRequirement(v) ==
    IF ~has_string(v, "name") THEN Err(Json)
    ELSE IF absent(v.o, "version-req")
    THEN Ok([name |-> v.o["name"].s, version_req |-> None])
    ELSE LET req == deserialize_PkgConfigVersionReq(v.o["version-req"])
         IN  IF ~req.ok THEN Err(Json)
             ELSE Ok([name |-> v.o["name"].s, version_req |-> Some(req.val)])

\* struct VcpkgLibName { lib_name, dll_name }, kebab-case keys
deserialize_VcpkgLibName(v) ==
    IF has_string(v, "lib-name") /\ has_string(v, "dll-name")
    THEN Ok([lib_name |-> v.o["lib-name"].s, dll_name |-> v.o["dll-name"].s])
    ELSE Err(Json)

\* struct VcpkgRequirement { name, libs: Vec<VcpkgLibName> }
deserialize_VcpkgRequirement(v) ==
    IF /\ has_string(v, "name")
       /\ "libs" \in DOMAIN v.o
       /\ v.o["libs"].t = "array"
       /\ \A i \in DOMAIN v.o["libs"].a : deserialize_VcpkgLibName(v.o["libs"].a[i]).ok
    THEN Ok([name |-> v.o["name"].s,
             libs |-> [i \in DOMAIN v.o["libs"].a |->
                          deserialize_VcpkgLibName(v.o["libs"].a[i]).val]])
    ELSE Err(Json)

\* serde_json's deserialize_enum on a Value: a string names a variant without
\* content, an object with exactly one key names a variant with that content,
\* anything else is an error
single_key(v) == v.t = "object" /\ Cardinality(DOMAIN v.o) = 1
the_key(v) == CHOOSE k \in DOMAIN v.o : TRUE

\* enum BuildKitMode, kebab-case unit variants: the variant's name as a string,
\* or as the one key of an object whose content is null
deserialize_BuildKitMode(v) ==
    IF v.t = "string"
    THEN IF v.s = <<"p","k","g","-","c","o","n","f","i","g">> THEN Ok("PkgConfig")
         ELSE IF v.s = <<"v","c","p","k","g">> THEN Ok("Vcpkg")
         ELSE IF v.s = <<"v","e","n","d","o","r","e","d","-","b","u","i","l","d">> THEN Ok("VendoredBuild")
         ELSE Err(Json)
    ELSE IF single_key(v) /\ v.o[the_key(v)].t = "null"
    THEN IF the_key(v) = "pkg-config" THEN Ok("PkgConfig")
         ELSE IF the_key(v) = "vcpkg" THEN Ok("Vcpkg")
         ELSE IF the_key(v) = "vendored-build" THEN Ok("VendoredBuild")
         ELSE Err(Json)
    ELSE Err(Json)

\* enum VendoredSource: externally tagged with kebab-case names, so the one key
\* of the object names the variant and its content holds the fields; a bare
\* string names a variant without content, which no struct variant accepts.
\* All four variants derive Deserialize, SystemPath included.
deserialize_VendoredSource(v) ==
    IF ~single_key(v) THEN Err(Json)
    ELSE LET tag == the_key(v)
             c == v.o[the_key(v)]
         IN
         IF tag = "remote-tarball"
         THEN IF has_string(c, "url") /\ has_string(c, "hash")
              THEN Ok([variant |-> "RemoteTarball", url |-> c.o["url"].s,
                       hash |-> c.o["hash"].s])
              ELSE Err(Json)
         ELSE IF tag = "git-repo"
         THEN IF has_string(c, "url") /\ has_string(c, "git-ref") /\ has_string(c, "hash")
              THEN Ok([variant |-> "GitRepo", url |-> c.o["url"].s,
                       git_ref |-> c.o["git-ref"].s, hash |-> c.o["hash"].s])
              ELSE Err(Json)
         ELSE IF tag = "crate-path"
         THEN IF has_string(c, "relative-path")
              THEN Ok([variant |-> "CratePath", relative_path |-> c.o["relative-path"].s])
              ELSE Err(Json)
         ELSE IF tag = "system-path"
         THEN IF has_string(c, "path")
              THEN Ok([variant |-> "SystemPath", path |-> c.o["path"].s])
              ELSE Err(Json)
         ELSE Err(Json)

\* struct BuildKitMetadata { pkg_config, vcpkg, vendored_source, default_mode }:
\* the three Option fields may be missing or null, default_mode is required,
\* unknown keys are ignored
deserialize_BuildKitMetadata(v) ==
    IF v.t # "object" THEN Err(Json)
    ELSE LET o == v.o
             p == IF absent(o, "pkg-config") THEN Ok(None)
                  ELSE LET r == deserialize_PkgConfigRequirement(o["pkg-config"])
                       IN  IF r.ok THEN Ok(Some(r.val)) ELSE Err(Json)
             c == IF absent(o, "vcpkg") THEN Ok(None)
                  ELSE LET r == deserialize_VcpkgRequirement(o["vcpkg"])
                       IN  IF r.ok THEN Ok(Some(r.val)) ELSE Err(Json)
             s == IF absent(o, "vendored-source") THEN Ok(None)
                  ELSE LET r == deserialize_VendoredSource(o["vendored-source"])
                       IN  IF r.ok THEN Ok(Some(r.val)) ELSE Err(Json)
             m == IF "default-mode" \in DOMAIN o
                  THEN deserialize_BuildKitMode(o["default-mode"]) ELSE Err(Json)
         IN  IF p.ok /\ c.ok /\ s.ok /\ m.ok
             THEN Ok([pkg_config |-> p.val, vcpkg |-> c.val,
                      vendored_source |-> s.val, default_mode |-> m.val])
             ELSE Err(Json)

----------------------------------------------------------------------------
(* BuildKit::from_metadata.                                                *)

\* the first package of `cargo metadata` whose name and version are the
\* build script's own
matching(packages, name, version) ==
    {i \in DOMAIN packages : packages[i].name = name /\ packages[i].version = version}

first_match(packages, name, version) ==
    packages[CHOOSE i \in matching(packages, name, version) :
                \A j \in matching(packages, name, version) : i <= j]

\* Value::get("buildkit") on package.metadata
has_buildkit(package) ==
    package.metadata.t = "object" /\ "buildkit" \in DOMAIN package.metadata.o

\* `res` is the Result<BuildKitMetadata, Error> the constructor stores or
\* returns, `reads` the environment keys read on the way
from_metadata(e, cg) ==
    LET manifest_dir == env_var(e, "CARGO_MANIFEST_DIR")
        name == env_var(e, "CARGO_PKG_NAME")
        version == env_var(e, "CARGO_PKG_VERSION")
        r1 == <<"CARGO_MANIFEST_DIR">>
        r2 == <<"CARGO_MANIFEST_DIR", "CARGO_PKG_NAME">>
        r3 == <<"CARGO_MANIFEST_DIR", "CARGO_PKG_NAME", "CARGO_PKG_VERSION">>
    IN  IF ~manifest_dir.ok THEN [res |-> manifest_dir, reads |-> r1]
        ELSE IF ~cg.ok THEN [res |-> Err(CargoMetadataError), reads |-> r1]
        ELSE IF ~name.ok THEN [res |-> name, reads |-> r2]
        ELSE IF ~version.ok THEN [res |-> version, reads |-> r3]
        ELSE IF matching(cg.val.packages, name.val, version.val) = {}
        THEN [res |-> Err(InvalidCargoMetadata), reads |-> r3]
        ELSE IF ~has_buildkit(first_match(cg.val.packages, name.val, version.val))
        THEN [res |-> Err(InvalidCargoMetadata), reads |-> r3]
        ELSE [res |-> deserialize_BuildKitMetadata(
                         first_match(cg.val.packages, name.val, version.val)
                             .metadata.o["buildkit"]),
              reads |-> r3]

----------------------------------------------------------------------------
(* The handlers' arguments and what they print.                            *)

\* VendoredBuildContext::new: the source is not looked at, the path is
\* Utf8PathBuf::new(), the empty path
VendoredBuildContext_new(source) == [source_path |-> <<>>]

\* VendoredBuildContext::source_path
source_path(c) == c.source_path

\* emit_no_vendor: the line it prints
emit_no_vendor(lib_name) ==
    LET normalized_name == replace(to_uppercase(lib_name), "-", "_")
    IN  [key |-> "cargo:rerun-if-env-changed",
         value |-> normalized_name \o <<"_","N","O","_","V","E","N","D","O","R">>]

\* the line try_pkg_config prints for one include path
cargo_include(path) == [key |-> "cargo:include", value |-> path]

\* pkg_config::Config after try_pkg_config has applied the version requirement
Unbounded == [bound |-> "Unbounded"]
Included(x) == [bound |-> "Included", v |-> x]
Excluded(x) == [bound |-> "Excluded", v |-> x]

pkg_config_Config(req) ==
    IF ~req.version_req.some
    THEN [min_version |-> Unbounded, max_version |-> Unbounded]
    ELSE LET version_req == req.version_req.v IN
         IF version_req.variant = "Range"
         THEN [min_version |-> Included(version_req.min),
               max_version |-> Excluded(version_req.max)]
         ELSE IF version_req.variant = "Min"
         THEN [min_version |-> Included(version_req.min), max_version |-> Unbounded]
         ELSE IF version_req.variant = "Max"
         THEN [min_version |-> Unbounded, max_version |-> Included(version_req.max)]
         ELSE [min_version |-> Included(version_req.exact),
               max_version |-> Included(version_req.exact)]

\* vcpkg::Config after try_vcpkg has configured it
vcpkg_Config(req) ==
    [emit_includes |-> TRUE,
     lib_names |-> [i \in DOMAIN req.libs |-> <<req.libs[i].lib_name, req.libs[i].dll_name>>]]

----------------------------------------------------------------------------
(* What the collaborators may answer.                                      *)

\* sequences over S of length at most n
BoundedSeq(S, n) == UNION {[1..k -> S] : k \in 0..n}

\* pkg_config::Library::include_paths of a successful probe
IncludeDirs == {<<"/","u","s","r","/","i","n","c","l","u","d","e">>}
ProbeOutcomes ==
    {Err(PkgConfigError)} \cup {Ok(p) : p \in BoundedSeq(IncludeDirs, MaxIncludes)}

\* vcpkg::Config::find_package
FindPackageOutcomes == {Err(VcpkgError), Ok(Unit)}

\* the caller's closure: Ok(()) or an Error it made with Error::custom
VendorOutcomes == {Err(Custom), Ok(Unit)}

----------------------------------------------------------------------------
(* The build script: BuildKit::from_metadata()?.build(try_vendor).         *)

Self == metadata.v

Finish(r) == pc' = "done" /\ result' = Some(r)

\* one invocation of a handler: which, with what, and what it returned
Call(handler, arg, ret) == [handler |-> handler, arg |-> arg, ret |-> ret]

\* let metadata = ...; Ok(BuildKit { metadata })
FromMetadata ==
    /\ pc = "from_metadata"
    /\ LET r == from_metadata(env, cargo) IN
       /\ envReads' = envReads \o r.reads
       /\ IF r.res.ok
          THEN /\ metadata' = Some(r.res.val)
               /\ pc' = "build"
               /\ UNCHANGED result
          ELSE /\ Finish(Err(r.res.err))
               /\ UNCHANGED metadata
    /\ UNCHANGED <<env, cargo, modeRes, ctx, probeCfg, calls, out>>

\* match self.mode()? {
BuildMode ==
    /\ pc = "build"
    /\ LET m == mode(Self, env) IN
       /\ envReads' = envReads \o m.reads
       /\ modeRes' = Some(m.res)
       /\ IF m.res.ok
          THEN pc' = "match" /\ UNCHANGED result
          ELSE Finish(Err(m.res.err))
    /\ UNCHANGED <<env, cargo, metadata, ctx, probeCfg, calls, out>>

\* faulty variant of the next definition: a missing vendored source falls back to a default context
BuildVendoredBuild_default ==
    /\ pc = "match"
    /\ modeRes.v.val = "VendoredBuild"
    /\ ctx' = IF Self.vendored_source.some
              THEN Some(VendoredBuildContext_new(Self.vendored_source.v))
              ELSE Some([source_path |-> <<>>])
    /\ pc' = "try_vendor"
    /\ UNCHANGED <<env, cargo, metadata, modeRes, probeCfg, calls, out, envReads, result>>

\* BuildKitMode::VendoredBuild => up to the call of try_vendor
BuildVendoredBuild ==
    /\ pc = "match"
    /\ modeRes.v.val = "VendoredBuild"
    /\ IF Self.vendored_source.some
       THEN /\ ctx' = Some(VendoredBuildContext_new(Self.vendored_source.v))
            /\ pc' = "try_vendor"
            /\ UNCHANGED result
       ELSE /\ Finish(Err(NoVendoredSourceSpecified))
            /\ UNCHANGED ctx
    /\ UNCHANGED <<env, cargo, metadata, modeRes, probeCfg, calls, out, envReads>>

\* try_vendor(ctx): the closure runs and build returns what it returns
TryVendor ==
    /\ pc = "try_vendor"
    /\ \E r \in VendorOutcomes :
          /\ calls' = Append(calls, Call("try_vendor", ctx.v, r))
          /\ Finish(r)
    /\ UNCHANGED <<env, cargo, metadata, modeRes, ctx, probeCfg, out, envReads>>

\* BuildKitMode::PkgConfig => up to the call of try_pkg_config
BuildPkgConfig ==
    /\ pc = "match"
    /\ modeRes.v.val = "PkgConfig"
    /\ IF Self.pkg_config.some
       THEN pc' = "try_pkg_config" /\ UNCHANGED result
       ELSE Finish(Err(NoPkgConfigRequirementSpecified))
    /\ UNCHANGED <<env, cargo, metadata, modeRes, ctx, probeCfg, calls, out, envReads>>

\* faulty variant of the next definition: the rebuild trigger is not printed ahead of the probe
TryPkgConfigEmit_silent ==
    /\ pc = "try_pkg_config"
    /\ probeCfg' = Some(pkg_config_Config(Self.pkg_config.v))
    /\ pc' = "pkg_config_probe"
    /\ UNCHANGED <<env, cargo, metadata, modeRes, ctx, calls, out, envReads, result>>

\* try_pkg_config up to config.probe: emit_no_vendor, then the Config
TryPkgConfigEmit ==
    /\ pc = "try_pkg_config"
    /\ out' = Append(out, emit_no_vendor(Self.pkg_config.v.name))
    /\ probeCfg' = Some(pkg_config_Config(Self.pkg_config.v))
    /\ pc' = "pkg_config_probe"
    /\ UNCHANGED <<env, cargo, metadata, modeRes, ctx, calls, envReads, result>>

\* config.probe(&req.name) and the include lines after a successful probe
PkgConfigProbe ==
    /\ pc = "pkg_config_probe"
    /\ \E lib \in ProbeOutcomes :
          /\ calls' = Append(calls, Call("pkg_config::probe",
                                         [name |-> Self.pkg_config.v.name,
                                          config |-> probeCfg.v], lib))
          /\ IF lib.ok
             THEN /\ out' = out \o [i \in DOMAIN lib.val |-> cargo_include(lib.val[i])]
                  /\ Finish(Ok(Unit))
             ELSE /\ Finish(Err(lib.err))
                  /\ UNCHANGED out
    /\ UNCHANGED <<env, cargo, metadata, modeRes, ctx, probeCfg, envReads>>

\* BuildKitMode::Vcpkg => up to the call of try_vcpkg
BuildVcpkg ==
    /\ pc = "match"
    /\ modeRes.v.val = "Vcpkg"
    /\ IF Self.vcpkg.some
       THEN pc' = "try_vcpkg" /\ UNCHANGED result
       ELSE Finish(Err(NoVcpkgRequirementSpecified))
    /\ UNCHANGED <<env, cargo, metadata, modeRes, ctx, probeCfg, calls, out, envReads>>

\* try_vcpkg up to config.find_package: emit_no_vendor, then the Config
TryVcpkgEmit ==
    /\ pc = "try_vcpkg"
    /\ out' = Append(out, emit_no_vendor(Self.vcpkg.v.name))
    /\ probeCfg' = Some(vcpkg_Config(Self.vcpkg.v))
    /\ pc' = "vcpkg_find_package"
    /\ UNCHANGED <<env, cargo, metadata, modeRes, ctx, calls, envReads, result>>

\* faulty variant of the next definition: a failed vcpkg probe is retried with pkg-config, as curl-sys does
VcpkgFindPackage_fallback ==
    /\ pc = "vcpkg_find_package"
    /\ \E r \in FindPackageOutcomes :
          /\ calls' = Append(calls, Call("vcpkg::find_package",
                                         [name |-> Self.vcpkg.v.name,
                                          config |-> probeCfg.v], r))
          /\ IF ~r.ok /\ Self.pkg_config.some
             THEN pc' = "try_pkg_config" /\ UNCHANGED result
             ELSE Finish(r)
    /\ UNCHANGED <<env, cargo, metadata, modeRes, ctx, probeCfg, out, envReads>>

\* config.find_package(name): build returns Ok(()) or the VcpkgError
VcpkgFindPackage ==
    /\ pc = "vcpkg_find_package"
    /\ \E r \in FindPackageOutcomes :
          /\ calls' = Append(calls, Call("vcpkg::find_package",
                                         [name |-> Self.vcpkg.v.name,
                                          config |-> probeCfg.v], r))
          /\ Finish(r)
    /\ UNCHANGED <<env, cargo, metadata, modeRes, ctx, probeCfg, out, envReads>>

Next ==
    \/ FromMetadata
    \/ BuildMode
    \/ BuildVendoredBuild
    \/ TryVendor
    \/ BuildPkgConfig
    \/ TryPkgConfigEmit
    \/ PkgConfigProbe
    \/ BuildVcpkg
    \/ TryVcpkgEmit
    \/ VcpkgFindPackage

----------------------------------------------------------------------------
(* The manifests and environments the build script starts from.            *)

\* a key of an object that may be left out
entry(k, o) == IF o.some THEN k :> o.v ELSE EmptyMap
Optional(S) == {None} \cup {Some(x) : x \in S}

LibNames == {<<"z","l","i","b">>, <<"l","i","b","f","o","o","-","b","a","r">>}

\* version-req tables: every choice of the keys min, max, exact, then a table
\* whose min is a number, then a bare string
VersionOf == ("min" :> <<"1",".","0">>) @@ ("max" :> <<"2",".","0">>) @@ ("exact" :> <<"1",".","0">>)
VersionReqDocs ==
    {JObject([k \in K |-> JString(VersionOf[k])]) : K \in SUBSET {"min", "max", "exact"}}
    \cup {JObject(("min" :> JNumber) @@ ("max" :> JString(<<"2",".","0">>))), JString(<<"1",".","0">>)}

PkgConfigDocs ==
    {JObject("name" :> JString(n)) : n \in LibNames}
    \cup {JObject(("name" :> JString(<<"z","l","i","b">>)) @@ ("version-req" :> v)) : v \in VersionReqDocs}
    \cup {JObject(EmptyMap)}

LibDoc == JObject(("lib-name" :> JString(<<"z","l","i","b">>)) @@ ("dll-name" :> JString(<<"z","l","i","b","1">>)))
VcpkgDocs ==
    {JObject(("name" :> JString(<<"z","l","i","b">>)) @@ ("libs" :> JArray(l))) :
        l \in BoundedSeq({LibDoc}, MaxLibs)}
    \cup {JObject("name" :> JString(<<"z","l","i","b">>))}

Url == JString(<<"h","t","t","p","s",":","/","/","e","x","a","m","p","l","e",".","o","r","g","/","z">>)
Hash == JString(<<"a","b","c">>)
VendoredSourceDocs ==
    {JObject("remote-tarball" :> JObject(("url" :> Url) @@ ("hash" :> Hash))),
     JObject("git-repo" :> JObject(("url" :> Url) @@ ("git-ref" :> JString(<<"v","1">>))
                                    @@ ("hash" :> Hash))),
     JObject("crate-path" :> JObject("relative-path" :> JString(<<"v","e","n","d","o","r","/","z">>))),
     JObject("system-path" :> JObject("path" :> JString(<<"/","u","s","r","/","s","r","c","/","z">>))),
     JObject("crate-path" :> JObject(EmptyMap)),
     JObject("tarball" :> JObject("url" :> Url)),
     JString(<<"c","r","a","t","e","-","p","a","t","h">>)}

DefaultModeDocs ==
    {JString(<<"p","k","g","-","c","o","n","f","i","g">>), JString(<<"v","c","p","k","g">>), JString(<<"v","e","n","d","o","r","e","d","-","b","u","i","l","d">>),
     JString(<<"s","y","s","t","e","m">>)}

BuildKitDoc(p, c, s, m) ==
    JObject(entry("pkg-config", p) @@ entry("vcpkg", c)
            @@ entry("vendored-source", s) @@ entry("default-mode", m))

BuildKitDocs ==
    {BuildKitDoc(p, c, s, m) :
        p \in Optional(PkgConfigDocs), c \in Optional(VcpkgDocs),
        s \in Optional(VendoredSourceDocs), m \in Optional(DefaultModeDocs)}

\* values of TARGET: unset, target triples, the empty string, and values that
\* are no valid Unicode
Targets ==
    {Unset,
     OsString(<<"x","8","6","_","6","4","-","p","c","-","w","i","n","d","o","w","s","-","m","s","v","c">>),
     OsString(<<"a","a","r","c","h","6","4","-","p","c","-","w","i","n","d","o","w","s","-","m","s","v","c">>),
     OsString(<<"-","w","i","n","d","o","w","s","-","m","s","v","c">>),
     OsString(<<"x","8","6","_","6","4","-","p","c","-","w","i","n","d","o","w","s","-","g","n","u">>),
     OsString(<<"x","8","6","_","6","4","-","u","n","k","n","o","w","n","-","l","i","n","u","x","-","g","n","u">>),
     OsString(<<"x","8","6","_","6","4","-","p","c","-","w","i","n","d","o","w","s","-","m","s","v","c","-","x">>),
     OsString(<<>>),
     OsString(<<InvalidByte>> \o <<"-","p","c","-","w","i","n","d","o","w","s","-","m","s","v","c">>),
     OsString(<<InvalidByte>> \o <<"-","u","n","k","n","o","w","n","-","l","i","n","u","x","-","g","n","u">>)}

PkgName == <<"z","-","s","y","s">>
PkgVersion == <<"0",".","1",".","0">>
ManifestDir == <<"/","s","r","c","/","z","-","s","y","s">>

Package(name, version, md) == [name |-> name, version |-> version, metadata |-> md]
OwnPackage(doc) == Package(PkgName, PkgVersion, JObject("buildkit" :> doc))
CargoOk(packages) == Ok([packages |-> packages])

CargoEnv(dir, name, version, target) ==
    ("CARGO_MANIFEST_DIR" :> dir) @@ ("CARGO_PKG_NAME" :> name)
    @@ ("CARGO_PKG_VERSION" :> version) @@ ("TARGET" :> target)

Start ==
    /\ pc = "from_metadata"
    /\ metadata = None
    /\ modeRes = None
    /\ ctx = None
    /\ probeCfg = None
    /\ calls = <<>>
    /\ out = <<>>
    /\ envReads = <<>>
    /\ result = None

\* cargo runs the build script of z-sys: any buildkit table, any TARGET
InitDocs ==
    /\ \E t \in Targets :
          env = CargoEnv(OsString(ManifestDir), OsString(PkgName), OsString(PkgVersion), t)
    /\ \E doc \in BuildKitDocs : cargo = CargoOk(<<OwnPackage(doc)>>)
    /\ Start

\* the build script runs in a broken setting: variables unset or not Unicode,
\* `cargo metadata` failing or not listing the package or its buildkit table
GoodDoc ==
    BuildKitDoc(Some(JObject("name" :> JString(<<"z","l","i","b">>))), None, None,
                Some(JString(<<"p","k","g","-","c","o","n","f","i","g">>)))
CargoOutputs ==
    {Err(CargoMetadataError),
     CargoOk(<<>>),
     CargoOk(<<Package(<<"o","t","h","e","r">>, PkgVersion, JObject("buildkit" :> GoodDoc))>>),
     CargoOk(<<Package(PkgName, <<"0",".","2",".","0">>, JObject("buildkit" :> GoodDoc))>>),
     CargoOk(<<Package(PkgName, PkgVersion, JNull)>>),
     CargoOk(<<Package(PkgName, PkgVersion, JObject("other" :> GoodDoc))>>),
     CargoOk(<<Package(<<"o","t","h","e","r">>, PkgVersion, JNull), OwnPackage(GoodDoc)>>)}

InitLoader ==
    /\ \E d \in {Unset, OsString(ManifestDir), OsString(<<InvalidByte>>)},
          n \in {Unset, OsString(PkgName), OsString(<<InvalidByte>>)},
          v \in {Unset, OsString(PkgVersion), OsString(<<InvalidByte>>)} :
          env = CargoEnv(d, n, v, OsString(<<"x","8","6","_","6","4","-","u","n","k","n","o","w","n","-","l","i","n","u","x","-","g","n","u">>))
    /\ cargo \in CargoOutputs
    /\ Start

Init == InitDocs \/ InitLoader

Spec == Init /\ [][Next]_vars

\* library names letter by letter, and the two names the documentation gives
NameAlphabet == {"a", "B", "1", "-", "."}
Names == BoundedSeq(NameAlphabet, MaxNameLen) \cup {<<"l","i","b","f","o","o","-","b","a","r">>, <<"A",".","b">>}

\* the same build script for every library name, declared for both probers
InitNames ==
    /\ \E t \in {Unset, OsString(<<"x","8","6","_","6","4","-","p","c","-","w","i","n","d","o","w","s","-","m","s","v","c">>),
                 OsString(<<"x","8","6","_","6","4","-","u","n","k","n","o","w","n","-","l","i","n","u","x","-","g","n","u">>)} :
          env = CargoEnv(OsString(ManifestDir), OsString(PkgName), OsString(PkgVersion), t)
    /\ \E n \in Names, m \in {<<"p","k","g","-","c","o","n","f","i","g">>, <<"v","c","p","k","g">>, <<"v","e","n","d","o","r","e","d","-","b","u","i","l","d">>} :
          cargo = CargoOk(<<OwnPackage(BuildKitDoc(
                      Some(JObject("name" :> JString(n))),
                      Some(JObject(("name" :> JString(n)) @@ ("libs" :> JArray(<<>>)))),
                      Some(JObject("crate-path"
                                   :> JObject("relative-path" :> JString(<<"v","e","n","d","o","r","/","z">>)))),
                      Some(JString(m))))>>)
    /\ Start

SpecNames == InitNames /\ [][Next]_vars

----------------------------------------------------------------------------
(* The claims.                                                             *)

\* mode() has returned
Resolved == metadata.some /\ modeRes.some
Target == env["TARGET"]
Count(handler) == Cardinality({i \in DOMAIN calls : calls[i].handler = handler})

\* s = prefix \o suffix for some prefix
HasSuffix(s, suffix) ==
    \E n \in 0..Len(s) : s = SubSeq(s, 1, n) \o suffix
ValidUnicode(s) == \A i \in DOMAIN s : s[i] # InvalidByte

(* C1: with default_mode VendoredBuild, mode() returns Ok(VendoredBuild)    *)
(* whatever TARGET is, set or unset, and never reads TARGET.               *)
C1_VendoredDefaultWins ==
    (Resolved /\ Self.default_mode = "VendoredBuild") =>
        /\ modeRes.v = Ok("VendoredBuild")
        /\ \A i \in DOMAIN envReads : envReads[i] # "TARGET"

C1_Witness ==
    /\ Resolved
    /\ Self.default_mode = "VendoredBuild"
    /\ ~Target.set
    /\ modeRes.v = Ok("VendoredBuild")

(* C2, as stated: with default_mode PkgConfig or Vcpkg and TARGET set to    *)
(* any value, mode() returns Vcpkg when TARGET ends with -windows-msvc and  *)
(* PkgConfig otherwise, whichever of the two defaults is declared.         *)
C2_AnySetTarget ==
    (Resolved /\ Self.default_mode # "VendoredBuild" /\ Target.set) =>
        modeRes.v = IF HasSuffix(Target.bytes, <<"-","w","i","n","d","o","w","s","-","m","s","v","c">>)
                    THEN Ok("Vcpkg") ELSE Ok("PkgConfig")

(* C2, amended: the same for every TARGET value that is valid Unicode.     *)
C2_UnicodeTarget ==
    (/\ Resolved
     /\ Self.default_mode # "VendoredBuild"
     /\ Target.set
     /\ ValidUnicode(Target.bytes)) =>
        modeRes.v = IF HasSuffix(Target.bytes, <<"-","w","i","n","d","o","w","s","-","m","s","v","c">>)
                    THEN Ok("Vcpkg") ELSE Ok("PkgConfig")

C2_Witness ==
    /\ Resolved
    /\ Self.default_mode = "Vcpkg"
    /\ Target = OsString(<<"x","8","6","_","6","4","-","p","c","-","w","i","n","d","o","w","s","-","g","n","u">>)
    /\ modeRes.v = Ok("PkgConfig")

(* C3: with default_mode not VendoredBuild and TARGET unset, mode() and     *)
(* with it build() fail with EnvVarError for the key TARGET, no handler is  *)
(* invoked and nothing is printed.                                         *)
C3_MissingTarget ==
    (metadata.some /\ Self.default_mode # "VendoredBuild" /\ ~Target.set) =>
        /\ calls = <<>>
        /\ out = <<>>
        /\ modeRes.some =>
              /\ modeRes.v = Err(EnvVarError("TARGET", "NotPresent"))
              /\ pc = "done"
              /\ result = Some(Err(EnvVarError("TARGET", "NotPresent")))

C3_Witness ==
    /\ pc = "done"
    /\ Resolved
    /\ Self.default_mode # "VendoredBuild"
    /\ Self.pkg_config.some
    /\ ~Target.set
    /\ result = Some(Err(EnvVarError("TARGET", "NotPresent")))

(* C4: when the resolved mode is VendoredBuild and no vendored_source is    *)
(* declared, build() returns NoVendoredSourceSpecified and try_vendor is    *)
(* never invoked.                                                          *)
C4_NoVendoredSource ==
    (/\ Resolved
     /\ modeRes.v = Ok("VendoredBuild")
     /\ ~Self.vendored_source.some) =>
        /\ Count("try_vendor") = 0
        /\ pc \in {"match", "done"}
        /\ pc = "done" => result = Some(Err(NoVendoredSourceSpecified))

C4_Witness ==
    /\ pc = "done"
    /\ Resolved
    /\ modeRes.v = Ok("VendoredBuild")
    /\ ~Self.vendored_source.some
    /\ result = Some(Err(NoVendoredSourceSpecified))

(* C5: when the resolved mode is VendoredBuild and vendored_source is       *)
(* declared, build() invokes try_vendor exactly once, with a context whose  *)
(* source_path() is the declared path for the CratePath and SystemPath      *)
(* variants, and returns what try_vendor returned.                         *)
DeclaredPath(source) ==
    IF source.variant = "CratePath" THEN source.relative_path ELSE source.path

C5_SourcePathIsDeclared ==
    (/\ pc = "done"
     /\ Resolved
     /\ modeRes.v = Ok("VendoredBuild")
     /\ Self.vendored_source.some) =>
        /\ Len(calls) = 1
        /\ calls[1].handler = "try_vendor"
        /\ result = Some(calls[1].ret)
        /\ Self.vendored_source.v.variant \in {"CratePath", "SystemPath"} =>
              source_path(calls[1].arg) = DeclaredPath(Self.vendored_source.v)

(* C6: one build() invokes at most one handler, at most once, and it is the *)
(* handler of the resolved mode; when it fails, or when the resolved mode's *)
(* declaration is missing, build() returns that error and no other mode's   *)
(* handler runs, even if that other mode is declared.                      *)
HandlerOf(m) ==
    IF m = "VendoredBuild" THEN "try_vendor"
    ELSE IF m = "PkgConfig" THEN "pkg_config::probe"
    ELSE "vcpkg::find_package"

Declared(m) ==
    IF m = "VendoredBuild" THEN Self.vendored_source.some
    ELSE IF m = "PkgConfig" THEN Self.pkg_config.some
    ELSE Self.vcpkg.some

C6_SingleMode ==
    /\ Len(calls) <= 1
    /\ calls # <<>> =>
          /\ Resolved
          /\ modeRes.v.ok
          /\ calls[1].handler = HandlerOf(modeRes.v.val)
          /\ pc = "done"
          /\ ~calls[1].ret.ok => result = Some(Err(calls[1].ret.err))
    /\ (Resolved /\ modeRes.v.ok /\ pc = "done" /\ ~Declared(modeRes.v.val)) =>
          /\ calls = <<>>
          /\ ~result.v.ok

C6_Witness ==
    /\ pc = "done"
    /\ Len(calls) = 1
    /\ calls[1].handler = "vcpkg::find_package"
    /\ ~calls[1].ret.ok
    /\ Self.pkg_config.some
    /\ result = Some(Err(VcpkgError))

(* C7: in both probing modes the rerun-if-env-changed line of the library's *)
(* _NO_VENDOR variable is printed before the prober is invoked and stays    *)
(* printed whether the probe succeeds or fails; cargo:include lines are     *)
(* printed only after a pkg-config probe that succeeded.                   *)
IsNoVendorLine(line) ==
    /\ line.key = "cargo:rerun-if-env-changed"
    /\ HasSuffix(line.value, <<"_","N","O","_","V","E","N","D","O","R">>)

IsProbe(call) == call.handler \in {"pkg_config::probe", "vcpkg::find_package"}

Alphanumeric ==
    {Lowercase[i] : i \in DOMAIN Lowercase} \cup {Uppercase[i] : i \in DOMAIN Uppercase}
    \cup {"0", "1", "2", "3", "4", "5", "6", "7", "8", "9"}

CollapseRuns(s) ==
    LET F[i \in 0..Len(s)] ==
            IF i = 0 THEN <<>>
            ELSE IF s[i] \in Alphanumeric THEN Append(F[i - 1], s[i])
            ELSE IF i > 1 /\ s[i - 1] \notin Alphanumeric THEN F[i - 1]
            ELSE Append(F[i - 1], "_")
    IN  F[Len(s)]

ClaimedVariable(lib_name) == CollapseRuns(to_uppercase(lib_name)) \o <<"_","N","O","_","V","E","N","D","O","R">>

ProbedName ==
    IF modeRes.v.val = "PkgConfig" THEN Self.pkg_config.v.name ELSE Self.vcpkg.v.name

C8_NormalizedName ==
    \A j \in DOMAIN out :
        out[j].key = "cargo:rerun-if-env-changed" =>
            out[j].value = ClaimedVariable(ProbedName)

(* C9: a version-req table with the keys of two or more shapes (min or max  *)
(* together with exact) is a decode error; a table with exactly the keys of *)
(* one shape decodes to that shape with the same values.                   *)
OwnDoc == cargo.val.packages[1].metadata.o["buildkit"]

\* the manifest is a pkg-config requirement with a version-req table of
\* strings, and a declared default mode: nothing else could fail to decode
VersionReqOnly ==
    /\ cargo.ok
    /\ Len(cargo.val.packages) = 1
    /\ has_buildkit(cargo.val.packages[1])
    /\ DOMAIN OwnDoc.o = {"pkg-config", "default-mode"}
    /\ OwnDoc.o["default-mode"] = JString(<<"p","k","g","-","c","o","n","f","i","g">>)
    /\ DOMAIN OwnDoc.o["pkg-config"].o = {"name", "version-req"}
    /\ OwnDoc.o["pkg-config"].o["version-req"].t = "object"
    /\ \A k \in DOMAIN OwnDoc.o["pkg-config"].o["version-req"].o :
          OwnDoc.o["pkg-config"].o["version-req"].o[k].t = "string"

VersionReqTable == OwnDoc.o["pkg-config"].o["version-req"].o

ClaimedShape(o) ==
    IF DOMAIN o = {"min", "max"}
    THEN [variant |-> "Range", min |-> o["min"].s, max |-> o["max"].s]
    ELSE IF DOMAIN o = {"min"} THEN [variant |-> "Min", min |-> o["min"].s]
    ELSE IF DOMAIN o = {"max"} THEN [variant |-> "Max", max |-> o["max"].s]
    ELSE [variant |-> "Exact", exact |-> o["exact"].s]

C9_OneShapeOnly ==
    (pc # "from_metadata" /\ VersionReqOnly) =>
        /\ DOMAIN VersionReqTable \in {{"min", "exact"}, {"max", "exact"},
                                       {"min", "max", "exact"}} =>
              ~metadata.some /\ result = Some(Err(Json))
        /\ DOMAIN VersionReqTable \in {{"min", "max"}, {"min"}, {"max"}, {"exact"}} =>
              /\ metadata.some
              /\ Self.pkg_config.v.version_req = Some(ClaimedShape(VersionReqTable))

(* C10: no manifest decodes to a configuration whose vendored_source is the *)
(* SystemPath variant.                                                     *)
C10_NoSystemPathFromManifest ==
    (metadata.some /\ Self.vendored_source.some) =>
        Self.vendored_source.v.variant # "SystemPath"

====
